---- MODULE Spec2Model ----
(***************************************************************************)
(* Order-fulfilment coordination of the food-delivery platform: the order  *)
(* store and its atomic conditional updates, the courier accept race, the  *)
(* status update endpoint, the TTL expiry monitor, the payment settlement   *)
(* consumer and the courier-matching (order-ready) consumer.               *)
(***************************************************************************)
EXTENDS Integers, FiniteSets, Sequences, TLC

\* -------------------------------------------------------------------------
\* Bounds of the model
\* -------------------------------------------------------------------------
NumRiders == 2        \* couriers that may try to accept
MaxTime == 2          \* clock ticks explored
MaxPublish == 2       \* PAYMENT_SUCCESS envelopes published per order
MaxCrashes == 1       \* crashes of settlement consumer instances
NumCouriers == 2      \* rider documents seen by the courier-matching consumer
MaxEmits == 2         \* messages emitted through POST /internal/emit
MaxReadyMsgs == 1     \* envelopes held by the order-ready queue (ready or unacknowledged)

\* -------------------------------------------------------------------------
\* Program constants
\* -------------------------------------------------------------------------
\* expiresAt = Date.now() + 15 * 60 * 1000; one clock tick stands for 15 min
ExpiryTicks == 1
\* $maxDistance of the $near query, in metres
MaxDistance == 500

\* null of a riderId or expiresAt field (courier ids and times are >= 1)
NULL == 0

\* no order id
NoOrder == "none"

OrderIds == {"o1"}

\* order ids where one courier meets more than one order
FleetOrderIds == {"o1", "o2"}
Riders == 1..NumRiders
Consumers == {"c1", "c2"}
Couriers == 1..NumCouriers

\* positions on a line, in metres: where rider documents and pickups may be
CourierLocs == {600, 601}
PickupLocs == {0, 100}

\* the tag the order-ready consumer recognises, and the tag of the envelope
\* interface description
ReadyTags == {"ORDER_READY_FOR_RIDER", "ORDER_READY_FOR_PICKUP"}

NoMsg == [ type |-> "none", orderId |-> NoOrder, location |-> 0 ]

\* Realtime gateway: connection slots, identities, tokens, rooms, requests
Sockets == {"s1", "s2"}
UserIds == {"u1", "u2"}
RestaurantIds == {"r1"}

\* a restaurantId that is not in the token's user object
NoRestaurant == "none"

\* decoded.user of a token issued by the identity service
Users == [ _id : UserIds, restaurantId : RestaurantIds \cup {NoRestaurant} ]

\* decoded.user / socket.data.user when there is none
NoUser == [ _id |-> "none", restaurantId |-> NoRestaurant ]

\* socket.handshake.auth.token: absent, or a token whose signature verifies
\* against JWT_SEC or does not, carrying a user object or none
NoToken == [ present |-> FALSE, signed |-> FALSE, user |-> NoUser ]
Tokens == {NoToken} \cup [ present : {TRUE}, signed : BOOLEAN, user : Users \cup {NoUser} ]

\* room keys
UserRoom(id) == << "user", id >>
RestaurantRoom(id) == << "restaurant", id >>
Rooms == { UserRoom(u) : u \in UserIds } \cup { RestaurantRoom(r) : r \in RestaurantIds }

\* a body field that is missing
NoRoom == << "none", "none" >>
NoEvent == "none"
Events == {"order:available"}

\* an undefined value: an unset environment variable, a header that is absent
Undefined == "undefined"
Secrets == {Undefined, "k1"}
Keys == {Undefined, "k1", "k2"}

\* no request to the internal endpoint yet
NoEmit == [ key |-> Undefined, event |-> NoEvent, room |-> NoRoom, status |-> 0, n |-> 0,
            body |-> [ none |-> TRUE ] ]

\* Payment service: Razorpay ids, the HMAC key, Stripe checkout sessions
RazorpayOrderIds == {"ro1", "ro2"}
RazorpayPaymentIds == {"p1"}

\* process.env.RAZORPAY_KEY_SECRET, and a key that is not the secret
RazorpayKeySecret == "rzp_secret"
OtherKey == "guess"

\* `${orderId}|${paymentId}`
SignedBody(orderId, paymentId) == << orderId, "|", paymentId >>

\* crypto.createHmac("sha256", key).update(body).digest("hex"): equal
\* digests only for equal keys and equal bodies
Hmac(key, body) == << "hmac-sha256", key, body >>

\* razorpay_signature of a request: the digest Razorpay's checkout gives for a
\* payment, a digest made without the secret, or none
Signatures ==
  { Hmac(RazorpayKeySecret, SignedBody(ro, p)) : ro \in RazorpayOrderIds, p \in RazorpayPaymentIds }
    \cup { Hmac(OtherKey, SignedBody(ro, p)) : ro \in {"ro1"}, p \in RazorpayPaymentIds }
    \cup { << Undefined >> }

\* req.body of POST /verify
RazorpayBodies ==
  [ razorpay_order_id : RazorpayOrderIds, razorpay_payment_id : RazorpayPaymentIds,
    razorpay_signature : Signatures, orderId : OrderIds ]

\* Stripe checkout sessions: ids, and a session as sessions.retrieve gives it
SessionIds == {"cs1", "cs2"}
NoSession == [ exists |-> FALSE, payment_status |-> "none", orderId |-> NoOrder ]

\* no verify request yet
NoPayRes == [ provider |-> "none", req |-> << >>, status |-> 0 ]

\* events a client may send to the server, and no client event yet
ClientEvents == {"join"}
NoClientEvent == [ socket |-> "none", event |-> NoEvent, room |-> NoRoom, at |-> 0 ]

\* Order states named by the state machine, in lifecycle order
Lifecycle ==
  << "placed", "payment_pending", "paid", "preparing", "ready_for_pickup",
     "rider_assigned", "picked_up", "delivered" >>

Statuses == { Lifecycle[i] : i \in 1..Len(Lifecycle) } \cup {"expired", "cancelled"}

Terminal == {"delivered", "cancelled", "expired"}

VARIABLES
  orders,      \* the Order collection: stored order id -> document
  created,     \* order ids that were ever inserted (an _id is never reused)
  now,         \* the clock, in ticks
  acceptPc,    \* per courier: position in acceptOrder
  acceptReq,   \* per courier: the order id of the accept in flight
  payQueue,    \* payment_queue: order id -> number of ready envelopes
  published,   \* order id -> number of PAYMENT_SUCCESS envelopes published
  settlePc,    \* per settlement consumer instance: position in the handler
  settleMsg,   \* per settlement consumer instance: order id of the unacked envelope
  crashes,     \* number of consumer crashes so far
  notifLog,    \* gateway dispatch log: order id -> confirmation notifications
  deadLetters, \* order id -> number of dead-lettered envelopes
  riderDocs,   \* the Rider collection: courier -> document
  readyQueue,  \* order_ready_queue: envelopes ready for delivery
  matchPc,     \* position of the order-ready handler
  matchMsg,    \* the envelope the order-ready handler holds
  matchTodo,   \* riders found by the query and not yet notified
  matchSeen,   \* the Rider collection as it was when the handler last started
  pushed,      \* couriers whose room got order:available for matchMsg
  pushFailed,  \* couriers whose gateway call failed for matchMsg
  matchLog,    \* outcome of the envelope handled last (empty while one is handled)
  unacked,     \* envelopes delivered on the open channel and left without ack or nack
  offered,     \* << courier, order id >> pairs for which order:available was pushed
  payWire,     \* order id -> envelopes sendToQueue wrote that the broker has not received yet
  stored,      \* order id -> envelopes the broker received and wrote to the durable queue
  lastSent,    \* the envelope sendToQueue wrote last on the payment queue's channel
  sessions,    \* Stripe's checkout sessions: session id -> session
  payRes,      \* the latest request to a verify endpoint of the payment service with its answer
  secret,      \* process.env.INTERNAL_SERVICE_KEY of the realtime service
  handshake,   \* per socket: outcome of its last handshake
  sockToken,   \* per socket: socket.handshake.auth.token of its last handshake
  sockUser,    \* per socket: socket.data.user
  sockSince,   \* per socket: number of messages emitted before it connected
  rooms,       \* the adapter's room registry: room key -> sockets
  inbox,       \* per socket: the messages its client received on this connection
  emitCount,   \* messages emitted by the internal endpoint so far
  lastEmit,    \* the latest request to POST /internal/emit with its response
  clientLast,  \* the latest event a client sent to the server over its connection
  bootPc,      \* rider service: position in its startup module
  dbState,     \* rider service: state of the storage connection
  findAt       \* dbState as it was when the order-ready handler last called Rider.find

varsStore == << orders, created, now >>
varsAccept == << acceptPc, acceptReq >>
varsSettle == << payQueue, published, settlePc, settleMsg, crashes, notifLog, deadLetters >>
varsMatch == << riderDocs, readyQueue, matchPc, matchMsg, matchTodo,
               matchSeen, pushed, pushFailed, matchLog, unacked, offered >>
varsBroker == << payWire, stored, lastSent >>
varsPay == << sessions, payRes >>
varsOrders == << varsStore, varsAccept, varsSettle, varsBroker, varsPay >>
varsGateway == << secret, handshake, sockToken, sockUser, sockSince, rooms, inbox,
                 emitCount, lastEmit, clientLast >>
varsBoot == << bootPc, dbState, findAt >>
vars == << varsStore, varsAccept, varsSettle, varsBroker, varsPay, varsMatch, varsBoot,
          varsGateway >>

\* -------------------------------------------------------------------------
\* Order store
\* -------------------------------------------------------------------------

\* Order.create({... paymentStatus: "pending", expiresAt: now + 15 min })
NewOrder(t) ==
  [ status |-> "placed", paymentStatus |-> "pending",
    expiresAt |-> t + ExpiryTicks, riderId |-> NULL ]

\* POST /api/order/new
CreateOrder(o) ==
  /\ o \notin created
  /\ created' = created \cup {o}
  /\ orders' = [ x \in DOMAIN orders \cup {o} |->
                   IF x = o THEN NewOrder(now) ELSE orders[x] ]
  /\ UNCHANGED << now, varsAccept, varsSettle >>
  /\ UNCHANGED << varsBroker, varsPay, varsMatch, varsBoot, varsGateway >>

\* Passage of time
Tick ==
  /\ now < MaxTime
  /\ now' = now + 1
  /\ UNCHANGED << orders, created, varsAccept, varsSettle >>
  /\ UNCHANGED << varsBroker, varsPay, varsMatch, varsBoot, varsGateway >>

\* a monitor that removes documents whatever their expiresAt
TTLMatchesAny(doc, t) == TRUE

\* TTL monitor: documents with expiresAt < Date.now()
TTLMatches(doc, t) == doc.expiresAt # NULL /\ doc.expiresAt < t

\* TTL monitor: delete matching documents
TTLExpire(o) ==
  /\ o \in DOMAIN orders
  /\ TTLMatches(orders[o], now)
  /\ orders' = [ x \in DOMAIN orders \ {o} |-> orders[x] ]
  /\ UNCHANGED << created, now, varsAccept, varsSettle >>
  /\ UNCHANGED << varsBroker, varsPay, varsMatch, varsBoot, varsGateway >>

\* -------------------------------------------------------------------------
\* Courier accept: rider service acceptOrder -> restaurant service
\* assignRiderToOrder (one findOneAndUpdate)
\* -------------------------------------------------------------------------

\* acceptOrder: the courier submits an accept for an order it was offered;
\* the request to PUT /api/order/assign/rider is then in flight
AcceptOrder(r, o) ==
  /\ acceptPc[r] = "idle"
  /\ o \in created
  /\ acceptPc' = [ acceptPc EXCEPT ![r] = "calling" ]
  /\ acceptReq' = [ acceptReq EXCEPT ![r] = o ]
  /\ UNCHANGED << varsStore, varsSettle >>
  /\ UNCHANGED << varsBroker, varsPay, varsMatch, varsBoot, varsGateway >>

\* filter of the findOneAndUpdate with riderId: null left out
AssignFilterNoCheck(doc) == TRUE

\* filter of the findOneAndUpdate: { _id: orderId, riderId: null }
AssignFilter(doc) == doc.riderId = NULL

\* update document of the findOneAndUpdate
AssignUpdate(doc, r) == [ doc EXCEPT !.riderId = r, !.status = "rider_assigned" ]

\* assignRiderToOrder with a losing accept sent back for another attempt
AssignRiderToOrderRetrying(r) ==
  /\ acceptPc[r] = "calling"
  /\ LET o == acceptReq[r] IN
       IF o \in DOMAIN orders /\ AssignFilter(orders[o])
       THEN /\ orders' = [ orders EXCEPT ![o] = AssignUpdate(orders[o], r) ]
            /\ acceptPc' = [ acceptPc EXCEPT ![r] = "accepted" ]
       ELSE /\ orders' = orders
            /\ acceptPc' = [ acceptPc EXCEPT ![r] = "idle" ]
  /\ UNCHANGED << created, now, acceptReq, varsSettle >>
  /\ UNCHANGED << varsBroker, varsPay, varsMatch, varsBoot, varsGateway >>

\* assignRiderToOrder that saves a whole document built from the order as it
\* was placed, in place of the update of two fields
AssignRiderToOrderReplacing(r) ==
  /\ acceptPc[r] = "calling"
  /\ LET o == acceptReq[r] IN
       IF o \in DOMAIN orders /\ AssignFilter(orders[o])
       THEN /\ orders' = [ orders EXCEPT ![o] = AssignUpdate(NewOrder(0), r) ]
            /\ acceptPc' = [ acceptPc EXCEPT ![r] = "accepted" ]
       ELSE /\ orders' = orders
            /\ acceptPc' = [ acceptPc EXCEPT ![r] = "conflict" ]
  /\ UNCHANGED << created, now, acceptReq, varsSettle >>
  /\ UNCHANGED << varsBroker, varsPay, varsMatch, varsBoot, varsGateway >>

\* assignRiderToOrder: the atomic conditional update and the answer the
\* courier gets: success, or 400 "Order already taken" when no document matched
AssignRiderToOrder(r) ==
  /\ acceptPc[r] = "calling"
  /\ LET o == acceptReq[r] IN
       IF o \in DOMAIN orders /\ AssignFilter(orders[o])
       THEN /\ orders' = [ orders EXCEPT ![o] = AssignUpdate(orders[o], r) ]
            /\ acceptPc' = [ acceptPc EXCEPT ![r] = "accepted" ]
       ELSE /\ orders' = orders
            /\ acceptPc' = [ acceptPc EXCEPT ![r] = "conflict" ]
  /\ UNCHANGED << created, now, acceptReq, varsSettle >>
  /\ UNCHANGED << varsBroker, varsPay, varsMatch, varsBoot, varsGateway >>

\* the answer of acceptOrder has reached the courier's app: res.json(...) or
\* res.status(400).json(...) ends the request, and the courier may send
\* another one
AcceptAnswered(r) ==
  /\ acceptPc[r] \in {"accepted", "conflict"}
  /\ acceptPc' = [ acceptPc EXCEPT ![r] = "idle" ]
  /\ acceptReq' = [ acceptReq EXCEPT ![r] = NoOrder ]
  /\ UNCHANGED << varsStore, varsSettle >>
  /\ UNCHANGED << varsBroker, varsPay, varsMatch, varsBoot, varsGateway >>

\* -------------------------------------------------------------------------
\* Status update endpoint
\* -------------------------------------------------------------------------

\* updateOrderStatus that also resets the courier of the order
UpdateOrderStatusClearingRider(o, s) ==
  /\ o \in DOMAIN orders
  /\ orders' = [ orders EXCEPT ![o].status = s, ![o].riderId = NULL ]
  /\ UNCHANGED << created, now, varsAccept, varsSettle >>
  /\ UNCHANGED << varsBroker, varsPay, varsMatch, varsBoot, varsGateway >>

\* updateOrderStatus: order.status = req.body.status; order.save()
\* (an unknown order id makes findById return null and the handler throws)
UpdateOrderStatus(o, s) ==
  /\ o \in DOMAIN orders
  /\ orders' = [ orders EXCEPT ![o].status = s ]
  /\ UNCHANGED << created, now, varsAccept, varsSettle >>
  /\ UNCHANGED << varsBroker, varsPay, varsMatch, varsBoot, varsGateway >>

\* -------------------------------------------------------------------------
\* Payment: the verify endpoint publishes PAYMENT_SUCCESS on payment_queue
\* -------------------------------------------------------------------------

\* no envelope sent yet
NoEnvelope == [ none |-> TRUE ]

\* JSON.stringify({ type: "PAYMENT_SUCCESS", data: payload }) with the
\* payload { orderId, paymentId, provider } of verifyRazorpayPayment
PaymentSuccessEnvelope(o) ==
  [ type |-> "PAYMENT_SUCCESS",
    data |-> [ orderId |-> o, paymentId |-> "pay", provider |-> "razorpay" ] ]

\* publishPaymentSuccess: channel.sendToQueue(PAYMENT_QUEUE, envelope, persistent)
\* on a plain channel: the frame is written to the connection and the call
\* returns without waiting for the broker
PublishPaymentSuccess(o) ==
  /\ payWire' = [ payWire EXCEPT ![o] = @ + 1 ]
  /\ published' = [ published EXCEPT ![o] = @ + 1 ]
  /\ lastSent' = PaymentSuccessEnvelope(o)

\* verifyRazorpayPayment: 400 on a bad signature, else publish and answer 200
VerifyRazorpayPayment(o, isValid) ==
  /\ published[o] < MaxPublish
  /\ IF ~isValid
     THEN UNCHANGED << payWire, published, lastSent >>
     ELSE PublishPaymentSuccess(o)
  /\ UNCHANGED << varsStore, varsAccept, payQueue, settlePc, settleMsg, crashes,
                  notifLog, deadLetters, stored >>
  /\ UNCHANGED << varsPay, varsMatch, varsBoot, varsGateway >>

\* the broker receives a persistent envelope and writes it to the durable queue
BrokerReceive(o) ==
  /\ payWire[o] > 0
  /\ payWire' = [ payWire EXCEPT ![o] = @ - 1 ]
  /\ stored' = [ stored EXCEPT ![o] = @ + 1 ]
  /\ payQueue' = [ payQueue EXCEPT ![o] = @ + 1 ]
  /\ UNCHANGED << varsStore, varsAccept, published, settlePc, settleMsg, crashes,
                  notifLog, deadLetters, lastSent >>
  /\ UNCHANGED << varsPay, varsMatch, varsBoot, varsGateway >>

\* the broker restarts while no consumer holds an envelope: the publisher's
\* connection is reset, so the frames the broker has not received are gone;
\* the durable queue keeps the persistent envelopes it had written
BrokerRestart ==
  /\ \A c \in Consumers : settlePc[c] = "idle"
  /\ payWire' = [ o \in OrderIds |-> 0 ]
  /\ UNCHANGED << varsStore, varsAccept, varsSettle, stored, lastSent >>
  /\ UNCHANGED << varsPay, varsMatch, varsBoot, varsGateway >>

\* -------------------------------------------------------------------------
\* Payment service: the verify endpoints with their requests and answers
\* -------------------------------------------------------------------------

\* JSON.stringify({ type: "PAYMENT_SUCCESS", data: payload })
PaymentEnvelope(payload) == [ type |-> "PAYMENT_SUCCESS", data |-> payload ]

\* publishPaymentSuccess(payload)
PublishPayload(payload) ==
  /\ payWire' = [ payWire EXCEPT ![payload.orderId] = @ + 1 ]
  /\ published' = [ published EXCEPT ![payload.orderId] = @ + 1 ]
  /\ lastSent' = PaymentEnvelope(payload)

\* a check that accepts every signature
VerifyRazorpaySignatureAny(orderId, paymentId, signature) == TRUE

\* verifyRazorpaySignature: expectedSignature === signature
VerifyRazorpaySignature(orderId, paymentId, signature) ==
  Hmac(RazorpayKeySecret, SignedBody(orderId, paymentId)) = signature

\* POST /verify -> verifyRazorpayPayment with its request body and its answer
VerifyRazorpayPaymentRequest(body) ==
  /\ published[body.orderId] < MaxPublish
  /\ LET isValid == VerifyRazorpaySignature(body.razorpay_order_id,
                                           body.razorpay_payment_id,
                                           body.razorpay_signature)
     IN IF ~isValid
        THEN /\ payRes' = [ provider |-> "razorpay", req |-> body, status |-> 400 ]
             /\ UNCHANGED << payWire, published, lastSent >>
        ELSE /\ PublishPayload([ orderId |-> body.orderId,
                                 paymentId |-> body.razorpay_payment_id,
                                 provider |-> "razorpay" ])
             /\ payRes' = [ provider |-> "razorpay", req |-> body, status |-> 200 ]
  /\ UNCHANGED << varsStore, varsAccept, payQueue, settlePc, settleMsg, crashes,
                  notifLog, deadLetters, stored, sessions >>
  /\ UNCHANGED << varsMatch, varsBoot, varsGateway >>

\* POST /stripe/create -> payWithStripe: the order's amount is fetched from
\* the restaurant service and a checkout session is created with
\* metadata.orderId; the customer has not paid yet
PayWithStripe(sid, o) ==
  /\ ~sessions[sid].exists
  /\ o \in DOMAIN orders
  /\ sessions' = [ sessions EXCEPT ![sid] =
                     [ exists |-> TRUE, payment_status |-> "unpaid", orderId |-> o ] ]
  /\ UNCHANGED << varsStore, varsAccept, varsSettle, varsBroker, payRes >>
  /\ UNCHANGED << varsMatch, varsBoot, varsGateway >>

\* a checkout session of the same Stripe account that was not created by
\* payWithStripe: its metadata has no orderId
StripeSessionElsewhere(sid) ==
  /\ ~sessions[sid].exists
  /\ sessions' = [ sessions EXCEPT ![sid] =
                     [ exists |-> TRUE, payment_status |-> "unpaid", orderId |-> NoOrder ] ]
  /\ UNCHANGED << varsStore, varsAccept, varsSettle, varsBroker, payRes >>
  /\ UNCHANGED << varsMatch, varsBoot, varsGateway >>

\* the customer completes the checkout: Stripe marks the session paid
StripeCheckoutCompleted(sid) ==
  /\ sessions[sid].exists
  /\ sessions[sid].payment_status = "unpaid"
  /\ sessions' = [ sessions EXCEPT ![sid].payment_status = "paid" ]
  /\ UNCHANGED << varsStore, varsAccept, varsSettle, varsBroker, payRes >>
  /\ UNCHANGED << varsMatch, varsBoot, varsGateway >>

\* POST /stripe/verify -> verifyStripe: sessions.retrieve throws for an
\* unknown id (500); a session without metadata.orderId is answered 400;
\* otherwise the envelope is published and the answer is 200
VerifyStripe(sid) ==
  /\ LET session == sessions[sid]
     IN IF ~session.exists
        THEN /\ payRes' = [ provider |-> "stripe", req |-> [ sessionId |-> sid ], status |-> 500 ]
             /\ UNCHANGED << payWire, published, lastSent >>
        ELSE IF session.orderId = NoOrder
        THEN /\ payRes' = [ provider |-> "stripe", req |-> [ sessionId |-> sid ], status |-> 400 ]
             /\ UNCHANGED << payWire, published, lastSent >>
        ELSE /\ published[session.orderId] < MaxPublish
             /\ PublishPayload([ orderId |-> session.orderId, paymentId |-> sid,
                                 provider |-> "stripe" ])
             /\ payRes' = [ provider |-> "stripe", req |-> [ sessionId |-> sid ], status |-> 200 ]
  /\ UNCHANGED << varsStore, varsAccept, payQueue, settlePc, settleMsg, crashes,
                  notifLog, deadLetters, stored, sessions >>
  /\ UNCHANGED << varsMatch, varsBoot, varsGateway >>

\* -------------------------------------------------------------------------
\* Order state machine
\* -------------------------------------------------------------------------

\* position of a state in the lifecycle, 0 for the side branches
Pos(st) == IF \E i \in 1..Len(Lifecycle) : Lifecycle[i] = st
           THEN CHOOSE i \in 1..Len(Lifecycle) : Lifecycle[i] = st
           ELSE 0

\* a transition is valid when the target immediately follows the current
\* state, or is a side branch: payment_pending -> expired, any state -> cancelled
ValidTransition(from, to) ==
  \/ Pos(from) > 0 /\ Pos(to) = Pos(from) + 1
  \/ from = "payment_pending" /\ to = "expired"
  \/ to = "cancelled" /\ from \notin Terminal

\* -------------------------------------------------------------------------
\* Payment settlement consumer
\* -------------------------------------------------------------------------

\* update document that forgets to remove the expiration
MarkPaidKeepingExpiry(doc) == [ doc EXCEPT !.paymentStatus = "paid" ]

\* update document: { paymentStatus: "paid", $unset: { expiresAt: 1 } }
MarkPaid(doc) == [ doc EXCEPT !.paymentStatus = "paid", !.expiresAt = NULL ]

\* condition of the settlement update left out: every delivery applies it
SettleFilterAlways(doc) == TRUE

\* condition of the settlement update: paymentStatus is currently pending
SettleFilter(doc) == doc.paymentStatus = "pending"

\* the broker hands a ready envelope to an idle consumer instance
SettleDeliver(c, o) ==
  /\ settlePc[c] = "idle"
  /\ payQueue[o] > 0
  /\ payQueue' = [ payQueue EXCEPT ![o] = @ - 1 ]
  /\ settlePc' = [ settlePc EXCEPT ![c] = "received" ]
  /\ settleMsg' = [ settleMsg EXCEPT ![c] = o ]
  /\ UNCHANGED << varsStore, varsAccept, published, crashes, notifLog, deadLetters >>
  /\ UNCHANGED << varsBroker, varsPay, varsMatch, varsBoot, varsGateway >>

\* the atomic conditional update: applied (go on to the transition), a
\* no-op acknowledged as done (already paid), or dead-letter (no such order)
SettleUpdate(c) ==
  /\ settlePc[c] = "received"
  /\ LET o == settleMsg[c] IN
       IF o \notin DOMAIN orders
       THEN /\ deadLetters' = [ deadLetters EXCEPT ![o] = @ + 1 ]
            /\ settlePc' = [ settlePc EXCEPT ![c] = "idle" ]
            /\ settleMsg' = [ settleMsg EXCEPT ![c] = NoOrder ]
            /\ orders' = orders
       ELSE IF SettleFilter(orders[o])
       THEN /\ orders' = [ orders EXCEPT ![o] = MarkPaid(orders[o]) ]
            /\ settlePc' = [ settlePc EXCEPT ![c] = "updated" ]
            /\ UNCHANGED << settleMsg, deadLetters >>
       ELSE /\ settlePc' = [ settlePc EXCEPT ![c] = "idle" ]
            /\ settleMsg' = [ settleMsg EXCEPT ![c] = NoOrder ]
            /\ UNCHANGED << orders, deadLetters >>
  /\ UNCHANGED << created, now, varsAccept, payQueue, published, crashes, notifLog >>
  /\ UNCHANGED << varsBroker, varsPay, varsMatch, varsBoot, varsGateway >>

\* a handler that acknowledges the envelope when storage is unavailable
SettleStorageUnavailableAcks(c) ==
  /\ settlePc[c] = "received"
  /\ settlePc' = [ settlePc EXCEPT ![c] = "idle" ]
  /\ settleMsg' = [ settleMsg EXCEPT ![c] = NoOrder ]
  /\ UNCHANGED << varsStore, varsAccept, payQueue, published, crashes, notifLog,
                  deadLetters >>
  /\ UNCHANGED << varsBroker, varsPay, varsMatch, varsBoot, varsGateway >>

\* the conditional update fails on transient storage unavailability:
\* nack with requeue
SettleStorageUnavailable(c) ==
  /\ settlePc[c] = "received"
  /\ payQueue' = [ payQueue EXCEPT ![settleMsg[c]] = @ + 1 ]
  /\ settlePc' = [ settlePc EXCEPT ![c] = "idle" ]
  /\ settleMsg' = [ settleMsg EXCEPT ![c] = NoOrder ]
  /\ UNCHANGED << varsStore, varsAccept, published, crashes, notifLog, deadLetters >>
  /\ UNCHANGED << varsBroker, varsPay, varsMatch, varsBoot, varsGateway >>

\* the transition placed/payment_pending -> paid applied to a document; a
\* document in any other state is left as it is
TransitionPaid(doc) ==
  IF doc.status \in {"placed", "payment_pending"}
  THEN [ doc EXCEPT !.status = "paid" ]
  ELSE doc

\* on success of the update: transition placed/payment_pending -> paid;
\* from any other state the request is rejected (InvalidTransition, logged)
SettleTransition(c) ==
  /\ settlePc[c] = "updated"
  /\ LET o == settleMsg[c] IN
       IF o \in DOMAIN orders
       THEN orders' = [ orders EXCEPT ![o] = TransitionPaid(orders[o]) ]
       ELSE orders' = orders
  /\ settlePc' = [ settlePc EXCEPT ![c] = "transitioned" ]
  /\ UNCHANGED << created, now, varsAccept, payQueue, published, settleMsg,
                  crashes, notifLog, deadLetters >>
  /\ UNCHANGED << varsBroker, varsPay, varsMatch, varsBoot, varsGateway >>

\* a handler that publishes the confirmation as soon as it has the envelope
SettleNotifyEarly(c) ==
  /\ settlePc[c] = "received"
  /\ notifLog' = [ notifLog EXCEPT ![settleMsg[c]] = @ + 1 ]
  /\ settlePc' = [ settlePc EXCEPT ![c] = "notified" ]
  /\ UNCHANGED << varsStore, varsAccept, payQueue, published, settleMsg,
                  crashes, deadLetters >>
  /\ UNCHANGED << varsBroker, varsPay, varsMatch, varsBoot, varsGateway >>

\* then publish the confirmation to room user:<order.userId>
SettleNotify(c) ==
  /\ settlePc[c] = "transitioned"
  /\ notifLog' = [ notifLog EXCEPT ![settleMsg[c]] = @ + 1 ]
  /\ settlePc' = [ settlePc EXCEPT ![c] = "notified" ]
  /\ UNCHANGED << varsStore, varsAccept, payQueue, published, settleMsg,
                  crashes, deadLetters >>
  /\ UNCHANGED << varsBroker, varsPay, varsMatch, varsBoot, varsGateway >>

\* ack: the envelope is removed permanently
SettleAck(c) ==
  /\ settlePc[c] = "notified"
  /\ settlePc' = [ settlePc EXCEPT ![c] = "idle" ]
  /\ settleMsg' = [ settleMsg EXCEPT ![c] = NoOrder ]
  /\ UNCHANGED << varsStore, varsAccept, payQueue, published, crashes,
                  notifLog, deadLetters >>
  /\ UNCHANGED << varsBroker, varsPay, varsMatch, varsBoot, varsGateway >>

\* a consumer instance crashes before acknowledgment: the broker requeues
\* the unacknowledged envelope and the instance restarts
SettleCrash(c) ==
  /\ settlePc[c] # "idle"
  /\ crashes < MaxCrashes
  /\ crashes' = crashes + 1
  /\ payQueue' = [ payQueue EXCEPT ![settleMsg[c]] = @ + 1 ]
  /\ settlePc' = [ settlePc EXCEPT ![c] = "idle" ]
  /\ settleMsg' = [ settleMsg EXCEPT ![c] = NoOrder ]
  /\ UNCHANGED << varsStore, varsAccept, published, notifLog, deadLetters >>
  /\ UNCHANGED << varsBroker, varsPay, varsMatch, varsBoot, varsGateway >>

\* -------------------------------------------------------------------------
\* Courier matching: the order-ready consumer of the rider service
\* -------------------------------------------------------------------------

\* Rider documents: isVerified and isAvailble default to false
RiderDocs == [ isAvailble : BOOLEAN, isVerified : BOOLEAN, location : CourierLocs ]

\* distance in metres between two positions
Dist(a, b) == IF a >= b THEN a - b ELSE b - a

\* the $near query without the isVerified condition
NearQueryUnverified(docs, loc) ==
  { c \in DOMAIN docs :
      /\ docs[c].isAvailble
      /\ Dist(docs[c].location, loc) <= MaxDistance }

\* Rider.find({ isAvailble: true, isVerified: true,
\*              location: { $near: { $geometry, $maxDistance: 500 } } })
NearQuery(docs, loc) ==
  { c \in DOMAIN docs :
      /\ docs[c].isAvailble
      /\ docs[c].isVerified
      /\ Dist(docs[c].location, loc) <= MaxDistance }

\* $near returns the documents nearest first
RECURSIVE NearestFirst(_, _, _)
NearestFirst(S, docs, loc) ==
  IF S = {} THEN << >>
  ELSE LET c == CHOOSE x \in S : \A y \in S :
                  \/ Dist(docs[x].location, loc) < Dist(docs[y].location, loc)
                  \/ /\ Dist(docs[x].location, loc) = Dist(docs[y].location, loc)
                     /\ x <= y
       IN << c >> \o NearestFirst(S \ {c}, docs, loc)

\* the external collaborator switches a courier's availability
ToggleRiderAvailablity(c) ==
  /\ riderDocs' = [ riderDocs EXCEPT ![c].isAvailble = ~@ ]
  /\ UNCHANGED << readyQueue, matchPc, matchMsg, matchTodo, matchSeen,
                  pushed, pushFailed, matchLog, unacked, offered >>
  /\ UNCHANGED << varsOrders, varsBoot, varsGateway >>

\* publishEvent(type, { orderId, restaurantId, location }) on order_ready_queue
PublishOrderReady(tag, o, loc) ==
  /\ Len(readyQueue) + Len(unacked) < MaxReadyMsgs
  /\ readyQueue' = Append(readyQueue, [ type |-> tag, orderId |-> o, location |-> loc ])
  /\ UNCHANGED << riderDocs, matchPc, matchMsg, matchTodo, matchSeen, pushed,
                  pushFailed, matchLog, unacked, offered >>
  /\ UNCHANGED << varsOrders, varsBoot, varsGateway >>

\* what the handler did with an envelope
Outcome(msg, didQuery, found, got, lost, didAck) ==
  [ msg |-> msg, queried |-> didQuery, found |-> found,
    pushed |-> got, failed |-> lost, ack |-> didAck ]

\* a filter that lets every type through
RecognisedAny(type) == TRUE

\* event.type !== "ORDER_READY_FOR_RIDER" is the test for skipping
Recognised(type) == type = "ORDER_READY_FOR_RIDER"

\* the consume callback up to the end of the rider query: an unrecognised
\* type is acked and skipped; an empty result is acked; otherwise the
\* riders found are kept for the notification loop
MatchConsume ==
  /\ matchPc = "idle"
  /\ readyQueue # << >>
  /\ LET msg == Head(readyQueue)
         found == NearQuery(riderDocs, msg.location)
     IN /\ readyQueue' = Tail(readyQueue)
        /\ pushed' = {}
        /\ pushFailed' = {}
        /\ IF ~Recognised(msg.type)
           THEN /\ matchLog' =
                      { Outcome(msg, FALSE, {}, {}, {}, TRUE) }
                /\ matchSeen' = riderDocs
                /\ UNCHANGED << matchPc, matchMsg, matchTodo >>
           ELSE IF found = {}
           THEN /\ matchLog' =
                      { Outcome(msg, TRUE, {}, {}, {}, TRUE) }
                /\ matchSeen' = riderDocs
                /\ UNCHANGED << matchPc, matchMsg, matchTodo >>
           ELSE /\ matchPc' = "notifying"
                /\ matchMsg' = msg
                /\ matchTodo' = NearestFirst(found, riderDocs, msg.location)
                /\ matchSeen' = riderDocs
                /\ matchLog' = {}
  /\ UNCHANGED << riderDocs, unacked, offered >>
  /\ UNCHANGED << varsOrders, varsBoot, varsGateway >>

\* the rider query throws (storage error): the outer catch logs and returns;
\* the envelope is neither acked nor nacked, so the broker keeps it as
\* unacknowledged for as long as the channel stays open
MatchQueryThrows ==
  /\ matchPc = "idle"
  /\ readyQueue # << >>
  /\ Recognised(Head(readyQueue).type)
  /\ readyQueue' = Tail(readyQueue)
  /\ pushed' = {}
  /\ pushFailed' = {}
  /\ matchLog' =
        { Outcome(Head(readyQueue), FALSE, {}, {}, {}, FALSE) }
  /\ matchSeen' = riderDocs
  /\ unacked' = Append(unacked, Head(readyQueue))
  /\ UNCHANGED << riderDocs, matchPc, matchMsg, matchTodo, offered >>
  /\ UNCHANGED << varsOrders, varsBoot, varsGateway >>

\* a loop without the inner try/catch: the first failed call ends the loop
MatchNotifyStopping(ok) ==
  /\ matchPc = "notifying"
  /\ matchTodo # << >>
  /\ IF ok
     THEN /\ pushed' = pushed \cup { Head(matchTodo) }
          /\ offered' = offered \cup { << Head(matchTodo), matchMsg.orderId >> }
          /\ matchTodo' = Tail(matchTodo)
          /\ UNCHANGED pushFailed
     ELSE /\ pushFailed' = pushFailed \cup { Head(matchTodo) }
          /\ matchTodo' = << >>
          /\ UNCHANGED << pushed, offered >>
  /\ UNCHANGED << riderDocs, readyQueue, matchPc, matchMsg, matchSeen,
                  matchLog, unacked >>
  /\ UNCHANGED << varsOrders, varsBoot, varsGateway >>

\* one turn of the loop: POST /internal/emit { order:available, user:<userId> };
\* a failed call is caught and logged and the loop goes on
MatchNotify(ok) ==
  /\ matchPc = "notifying"
  /\ matchTodo # << >>
  /\ IF ok
     THEN /\ pushed' = pushed \cup { Head(matchTodo) }
          /\ offered' = offered \cup { << Head(matchTodo), matchMsg.orderId >> }
          /\ UNCHANGED pushFailed
     ELSE /\ pushFailed' = pushFailed \cup { Head(matchTodo) }
          /\ UNCHANGED << pushed, offered >>
  /\ matchTodo' = Tail(matchTodo)
  /\ UNCHANGED << riderDocs, readyQueue, matchPc, matchMsg, matchSeen,
                  matchLog, unacked >>
  /\ UNCHANGED << varsOrders, varsBoot, varsGateway >>

\* the realtime service accepts the request and never answers: axios.post is
\* called without a timeout, so the await never settles and the handler
\* stays where it is
MatchNotifyHangs ==
  /\ matchPc = "notifying"
  /\ matchTodo # << >>
  /\ matchPc' = "awaiting"
  /\ UNCHANGED << riderDocs, readyQueue, matchMsg, matchTodo, matchSeen, pushed,
                  pushFailed, matchLog, unacked, offered >>
  /\ UNCHANGED << varsOrders, varsBoot, varsGateway >>

\* after the loop: channel.ack(msg)
MatchAck ==
  /\ matchPc = "notifying"
  /\ matchTodo = << >>
  /\ matchLog' =
        { Outcome(matchMsg, TRUE, pushed \cup pushFailed, pushed, pushFailed, TRUE) }
  /\ matchPc' = "idle"
  /\ matchMsg' = NoMsg
  /\ UNCHANGED << riderDocs, readyQueue, matchTodo, matchSeen, pushed,
                  pushFailed, unacked, offered >>
  /\ UNCHANGED << varsOrders, varsBoot, varsGateway >>

\* the envelopes the broker holds as unacknowledged for the consumer's
\* channel: the abandoned ones and the one being handled
Unacknowledged ==
  unacked \o (IF matchPc \in {"notifying", "awaiting"} THEN << matchMsg >> ELSE << >>)

\* the rider service dies and comes back: its channel closes, the broker puts
\* every unacknowledged envelope back on the queue, and consumption starts
\* again with an idle handler
MatchRestart ==
  /\ Unacknowledged # << >>
  /\ readyQueue' = Unacknowledged \o readyQueue
  /\ unacked' = << >>
  /\ matchPc' = "idle"
  /\ matchMsg' = NoMsg
  /\ matchTodo' = << >>
  /\ UNCHANGED << riderDocs, matchSeen, pushed, pushFailed, matchLog, offered >>
  /\ UNCHANGED << varsOrders, varsBoot, varsGateway >>

\* -------------------------------------------------------------------------
\* Realtime gateway: socket authentication, rooms, the internal emit endpoint
\* -------------------------------------------------------------------------

\* jwt.decode in place of jwt.verify: the signature is not checked
JwtDecodeOnly(token) == [ ok |-> TRUE, user |-> token.user ]

\* jwt.verify(token, JWT_SEC): the payload, or an exception
JwtVerify(token) ==
  IF token.signed THEN [ ok |-> TRUE, user |-> token.user ]
                  ELSE [ ok |-> FALSE, user |-> NoUser ]

\* the io.use middleware: next(new Error("Unauthorized")) or next() with
\* socket.data.user set
IoUse(token) ==
  IF ~token.present THEN [ err |-> TRUE, user |-> NoUser ]
  ELSE LET decoded == JwtVerify(token)
       IN IF ~decoded.ok THEN [ err |-> TRUE, user |-> NoUser ]
          ELSE IF decoded.user = NoUser THEN [ err |-> TRUE, user |-> NoUser ]
          ELSE [ err |-> FALSE, user |-> decoded.user ]

\* a connection handler that joins the user room only
JoinUserRoomOnly(user) == { UserRoom(user._id) }

\* the rooms the connection handler joins: user:<_id>, and
\* restaurant:<restaurantId> if the user has one
JoinedRooms(user) ==
  { UserRoom(user._id) } \cup
  (IF user.restaurantId # NoRestaurant THEN { RestaurantRoom(user.restaurantId) } ELSE {})

\* a connection handler that replays the latest message of the user's room
BacklogReplay(user) ==
  IF lastEmit.status = 200 /\ lastEmit.room = UserRoom(user._id) THEN { lastEmit.n } ELSE {}

\* what the connection handler emits to the socket that just joined: nothing
Backlog(user) == {}

\* a client opens a connection with a handshake token
SocketConnect(s, token) ==
  /\ handshake[s] # "connected"
  /\ sockToken' = [ sockToken EXCEPT ![s] = token ]
  /\ LET auth == IoUse(token)
     IN IF auth.err
        THEN /\ handshake' = [ handshake EXCEPT ![s] = "Unauthorized" ]
             /\ UNCHANGED << sockUser, sockSince, rooms, inbox >>
        ELSE /\ handshake' = [ handshake EXCEPT ![s] = "connected" ]
             /\ sockUser' = [ sockUser EXCEPT ![s] = auth.user ]
             /\ sockSince' = [ sockSince EXCEPT ![s] = emitCount ]
             /\ rooms' = [ r \in Rooms |->
                            IF r \in JoinedRooms(auth.user) THEN rooms[r] \cup {s}
                                                           ELSE rooms[r] ]
             /\ inbox' = [ inbox EXCEPT ![s] = Backlog(auth.user) ]
  /\ UNCHANGED << secret, emitCount, lastEmit, clientLast >>
  /\ UNCHANGED << varsOrders, varsMatch, varsBoot >>

\* a disconnect that leaves the room registry as it is
LeaveNone(rms, s) == rms

\* on disconnect socket.io removes the socket from every room
LeaveAll(rms, s) == [ r \in DOMAIN rms |-> rms[r] \ {s} ]

\* the connection closes
SocketDisconnect(s) ==
  /\ handshake[s] = "connected"
  /\ handshake' = [ handshake EXCEPT ![s] = "disconnected" ]
  /\ rooms' = LeaveAll(rooms, s)
  /\ sockToken' = [ sockToken EXCEPT ![s] = NoToken ]
  /\ sockUser' = [ sockUser EXCEPT ![s] = NoUser ]
  /\ sockSince' = [ sockSince EXCEPT ![s] = 0 ]
  /\ inbox' = [ inbox EXCEPT ![s] = {} ]
  /\ UNCHANGED << secret, emitCount, lastEmit, clientLast >>
  /\ UNCHANGED << varsOrders, varsMatch, varsBoot >>

\* io.emit: every connected socket
RecipientsAll(rms, room) == UNION { rms[r] : r \in DOMAIN rms }

\* io.to(room): the sockets in the room
Recipients(rms, room) == IF room \in DOMAIN rms THEN rms[room] ELSE {}

\* an endpoint that reports an empty room as an error
EmitStatusNotFound(rms, room) == IF Recipients(rms, room) = {} THEN 404 ELSE 200

\* res.json({ sucess: true }) after the emit, whoever is in the room
EmitStatus(rms, room) == 200

\* req.headers["x-internal-key"] !== process.env.INTERNAL_SERVICE_KEY
Forbidden(key, sec) == key # sec

\* a body check that only looks at the event
MissingEventOnly(event, room) == event = NoEvent

\* !event || !room
MissingField(event, room) == event = NoEvent \/ room = NoRoom

\* the JSON bodies of the three answers
ForbiddenBody == [ message |-> "Forbidden" ]
BadRequestBody == [ message |-> "event and room are required" ]
EmitBody == [ sucess |-> TRUE ]

\* POST /internal/emit with header x-internal-key and body { event, room }
InternalEmit(key, event, room) ==
  /\ emitCount < MaxEmits
  /\ IF Forbidden(key, secret)
     THEN /\ lastEmit' = [ key |-> key, event |-> event, room |-> room,
                           status |-> 403, n |-> emitCount, body |-> ForbiddenBody ]
          /\ UNCHANGED << emitCount, inbox >>
     ELSE IF MissingField(event, room)
     THEN /\ lastEmit' = [ key |-> key, event |-> event, room |-> room,
                           status |-> 400, n |-> emitCount, body |-> BadRequestBody ]
          /\ UNCHANGED << emitCount, inbox >>
     ELSE /\ emitCount' = emitCount + 1
          /\ inbox' = [ s \in Sockets |->
                          IF s \in Recipients(rooms, room)
                          THEN inbox[s] \cup { emitCount + 1 } ELSE inbox[s] ]
          /\ lastEmit' = [ key |-> key, event |-> event, room |-> room,
                           status |-> EmitStatus(rooms, room), n |-> emitCount + 1,
                           body |-> EmitBody ]
  /\ UNCHANGED << secret, handshake, sockToken, sockUser, sockSince, rooms, clientLast >>
  /\ UNCHANGED << varsOrders, varsMatch, varsBoot >>

\* a server with a listener that lets a client join the room it names
ClientEventJoins(rms, s, event, room) ==
  [ r \in DOMAIN rms |-> IF r = room THEN rms[r] \cup {s} ELSE rms[r] ]

\* what an event from a client does to the room registry: the connection
\* handler registers a listener for "disconnect" and for nothing else, so
\* any other event is dropped
ClientEventRooms(rms, s, event, room) == rms

\* a connected client sends an event that names a room
ClientEmit(s, event, room) ==
  /\ handshake[s] = "connected"
  /\ rooms' = ClientEventRooms(rooms, s, event, room)
  /\ clientLast' = [ socket |-> s, event |-> event, room |-> room, at |-> emitCount ]
  /\ UNCHANGED << secret, handshake, sockToken, sockUser, sockSince, inbox,
                  emitCount, lastEmit >>
  /\ UNCHANGED << varsOrders, varsMatch, varsBoot >>

\* -------------------------------------------------------------------------
\* Rider service startup
\* -------------------------------------------------------------------------

\* await connectRabbitMQ()
ConnectRabbitMQ ==
  /\ bootPc = "start"
  /\ bootPc' = "mq"
  /\ UNCHANGED << dbState, findAt >>
  /\ UNCHANGED << varsOrders, varsMatch, varsGateway >>

\* startOrderReadyConsumer(): channel.consume registers the callback
StartOrderReadyConsumer ==
  /\ bootPc = "mq"
  /\ bootPc' = "consuming"
  /\ UNCHANGED << dbState, findAt >>
  /\ UNCHANGED << varsOrders, varsMatch, varsGateway >>

\* app.listen(PORT, () => { connectDB() }): the callback calls connectDB and
\* does not wait for it
AppListen ==
  /\ bootPc = "consuming"
  /\ bootPc' = "listening"
  /\ dbState' = "connecting"
  /\ UNCHANGED findAt
  /\ UNCHANGED << varsOrders, varsMatch, varsGateway >>

\* connectDB completes: the storage connection is established
DbConnected ==
  /\ dbState = "connecting"
  /\ dbState' = "connected"
  /\ UNCHANGED << bootPc, findAt >>
  /\ UNCHANGED << varsOrders, varsMatch, varsGateway >>

\* the callback registered by channel.consume is running
Consuming == bootPc \in {"consuming", "listening"}

\* the callback gets an envelope while storage is connected, or one it
\* skips for its type: the handler as in MatchConsume
BootConsume ==
  /\ Consuming
  /\ readyQueue # << >>
  /\ dbState = "connected" \/ ~Recognised(Head(readyQueue).type)
  /\ MatchConsume

\* the callback gets an envelope while storage is not connected: Rider.find
\* is called and the query is held until the connection is there
BootFind ==
  /\ Consuming
  /\ matchPc = "idle"
  /\ readyQueue # << >>
  /\ Recognised(Head(readyQueue).type)
  /\ dbState # "connected"
  /\ findAt' = dbState
  /\ matchPc' = "finding"
  /\ matchMsg' = Head(readyQueue)
  /\ readyQueue' = Tail(readyQueue)
  /\ pushed' = {}
  /\ pushFailed' = {}
  /\ matchLog' = {}
  /\ UNCHANGED << riderDocs, matchTodo, matchSeen, unacked, offered, bootPc, dbState >>
  /\ UNCHANGED << varsOrders, varsGateway >>

\* the held query is given up before the connection is there: Rider.find
\* rejects, the outer catch logs, and the envelope is left without ack
BootFindTimesOut ==
  /\ matchPc = "finding"
  /\ dbState # "connected"
  /\ matchLog' = { Outcome(matchMsg, FALSE, {}, {}, {}, FALSE) }
  /\ unacked' = Append(unacked, matchMsg)
  /\ matchPc' = "idle"
  /\ matchMsg' = NoMsg
  /\ matchSeen' = riderDocs
  /\ UNCHANGED << riderDocs, readyQueue, matchTodo, pushed, pushFailed, offered >>
  /\ UNCHANGED << varsOrders, varsBoot, varsGateway >>

\* the connection is there and the held query runs: the handler goes on
\* with its result as in MatchConsume
BootFindResolves ==
  /\ matchPc = "finding"
  /\ dbState = "connected"
  /\ LET found == NearQuery(riderDocs, matchMsg.location)
     IN IF found = {}
        THEN /\ matchLog' = { Outcome(matchMsg, TRUE, {}, {}, {}, TRUE) }
             /\ matchPc' = "idle"
             /\ matchMsg' = NoMsg
             /\ UNCHANGED matchTodo
        ELSE /\ matchPc' = "notifying"
             /\ matchTodo' = NearestFirst(found, riderDocs, matchMsg.location)
             /\ UNCHANGED << matchMsg, matchLog >>
  /\ matchSeen' = riderDocs
  /\ UNCHANGED << riderDocs, readyQueue, pushed, pushFailed, unacked, offered >>
  /\ UNCHANGED << varsOrders, varsBoot, varsGateway >>

InitOrders ==
  /\ orders = << >>
  /\ created = {}
  /\ now = 0
  /\ acceptPc = [ r \in Riders |-> "idle" ]
  /\ acceptReq = [ r \in Riders |-> NoOrder ]
  /\ payQueue = [ o \in OrderIds |-> 0 ]
  /\ published = [ o \in OrderIds |-> 0 ]
  /\ settlePc = [ c \in Consumers |-> "idle" ]
  /\ settleMsg = [ c \in Consumers |-> NoOrder ]
  /\ crashes = 0
  /\ notifLog = [ o \in OrderIds |-> 0 ]
  /\ deadLetters = [ o \in OrderIds |-> 0 ]
  /\ payWire = [ o \in OrderIds |-> 0 ]
  /\ stored = [ o \in OrderIds |-> 0 ]
  /\ lastSent = NoEnvelope
  /\ sessions = [ sid \in SessionIds |-> NoSession ]
  /\ payRes = NoPayRes

InitMatchIdle ==
  /\ readyQueue = << >>
  /\ matchPc = "idle"
  /\ matchMsg = NoMsg
  /\ matchTodo = << >>
  /\ pushed = {}
  /\ pushFailed = {}
  /\ matchLog = {}
  /\ unacked = << >>
  /\ offered = {}

InitSockets ==
  /\ handshake = [ s \in Sockets |-> "none" ]
  /\ sockToken = [ s \in Sockets |-> NoToken ]
  /\ sockUser = [ s \in Sockets |-> NoUser ]
  /\ sockSince = [ s \in Sockets |-> 0 ]
  /\ rooms = [ r \in Rooms |-> {} ]
  /\ inbox = [ s \in Sockets |-> {} ]
  /\ emitCount = 0
  /\ lastEmit = NoEmit
  /\ clientLast = NoClientEvent

\* the rider service up and running: listening, storage connected
InitUp ==
  /\ bootPc = "listening"
  /\ dbState = "connected"
  /\ findAt = "not called"

\* a rider profile as addRiderProfile leaves it: unverified, unavailable
NewRider == [ isAvailble |-> FALSE, isVerified |-> FALSE, location |-> 600 ]

Init ==
  /\ InitOrders
  /\ InitUp
  /\ InitMatchIdle
  /\ riderDocs = [ c \in Couriers |-> NewRider ]
  /\ matchSeen = riderDocs
  /\ InitSockets
  /\ secret = "k1"

\* the rider service over any registered riders
InitMatch ==
  /\ InitOrders
  /\ InitUp
  /\ InitMatchIdle
  /\ riderDocs \in [ Couriers -> { d \in RiderDocs : ~d.isAvailble } ]
  /\ matchSeen = riderDocs
  /\ InitSockets
  /\ secret = "k1"

\* the realtime service under any configuration of its shared secret
InitGateway ==
  /\ InitOrders
  /\ InitUp
  /\ InitMatchIdle
  /\ riderDocs = [ c \in Couriers |-> NewRider ]
  /\ matchSeen = riderDocs
  /\ InitSockets
  /\ secret \in Secrets

\* the rider service process starts over a Rider collection and a queue that
\* outlive it
InitStartup ==
  /\ InitOrders
  /\ InitMatchIdle
  /\ riderDocs \in [ Couriers -> RiderDocs ]
  /\ matchSeen = riderDocs
  /\ InitSockets
  /\ secret = "k1"
  /\ bootPc = "start"
  /\ dbState = "none"
  /\ findAt = "not called"

\* The order pipeline over a broker that stays up: the order store with
\* its writers, the verify endpoint, the broker and the settlement consumers
Next ==
  \/ \E o \in OrderIds : CreateOrder(o)
  \/ Tick
  \/ \E o \in OrderIds : TTLExpire(o)
  \/ \E r \in Riders, o \in OrderIds : AcceptOrder(r, o)
  \/ \E r \in Riders : AssignRiderToOrder(r)
  \/ \E o \in OrderIds, s \in Statuses : UpdateOrderStatus(o, s)
  \/ \E o \in OrderIds, isValid \in BOOLEAN : VerifyRazorpayPayment(o, isValid)
  \/ \E o \in OrderIds : BrokerReceive(o)
  \/ \E c \in Consumers, o \in OrderIds : SettleDeliver(c, o)
  \/ \E c \in Consumers : SettleUpdate(c)
  \/ \E c \in Consumers : SettleStorageUnavailable(c)
  \/ \E c \in Consumers : SettleTransition(c)
  \/ \E c \in Consumers : SettleNotify(c)
  \/ \E c \in Consumers : SettleAck(c)
  \/ \E c \in Consumers : SettleCrash(c)

Spec == Init /\ [][Next]_vars

\* -------------------------------------------------------------------------
\* Courier assignment: C1, C2, C3
\* -------------------------------------------------------------------------

Winners(o) == { r \in Riders : acceptReq[r] = o /\ acceptPc[r] = "accepted" }
Losers(o) == { r \in Riders : acceptReq[r] = o /\ acceptPc[r] = "conflict" }

\* C1: however the accepts of the couriers on one order interleave, at most
\* one accept succeeds; once any accept on a stored order has been answered,
\* exactly one has succeeded, every other answered accept got the conflict
\* answer, and the order's riderId is the winner.
C1_SingleAssignment ==
  \A o \in OrderIds :
    /\ Cardinality(Winners(o)) <= 1
    /\ o \in DOMAIN orders /\ Winners(o) \cup Losers(o) # {}
         => /\ Cardinality(Winners(o)) = 1
            /\ orders[o].riderId \in Winners(o)

\* C1 witness: two accepts on the same stored order, one won and one lost
C1_Witness ==
  \E o \in DOMAIN orders :
    /\ Cardinality(Winners(o)) = 1
    /\ Losers(o) # {}
    /\ orders[o].riderId \in Winners(o)

\* C2: once an order's riderId is non-null no step (accept, settlement,
\* redelivery, status update, clock, expiry) gives the stored order another
\* riderId or null.
C2_RiderIdImmutable ==
  [][ \A o \in DOMAIN orders :
        orders[o].riderId # NULL /\ o \in DOMAIN orders'
          => orders'[o].riderId = orders[o].riderId ]_vars

\* C2 witness: an assigned order that was afterwards settled and delivered
\* while another courier's accept lost
C2_Witness ==
  \E o \in DOMAIN orders :
    /\ orders[o].riderId # NULL
    /\ orders[o].paymentStatus = "paid"
    /\ orders[o].status = "delivered"
    /\ Losers(o) # {}
    /\ notifLog[o] > 0

NextSettle ==
  \/ \E o \in OrderIds : CreateOrder(o)
  \/ Tick
  \/ \E o \in OrderIds : TTLExpire(o)
  \/ \E o \in OrderIds, isValid \in BOOLEAN : VerifyRazorpayPayment(o, isValid)
  \/ \E o \in OrderIds : BrokerReceive(o)
  \/ BrokerRestart
  \/ \E c \in Consumers, o \in OrderIds : SettleDeliver(c, o)
  \/ \E c \in Consumers : SettleUpdate(c)
  \/ \E c \in Consumers : SettleStorageUnavailable(c)
  \/ \E c \in Consumers : SettleTransition(c)
  \/ \E c \in Consumers : SettleNotify(c)
  \/ \E c \in Consumers : SettleAck(c)
  \/ \E c \in Consumers : SettleCrash(c)

SpecSettle == Init /\ [][NextSettle]_vars

\* The order store with the operations that write an order's status:
\* order placement, the accept race, the status update endpoint, expiry
NextStore ==
  \/ \E o \in OrderIds : CreateOrder(o)
  \/ Tick
  \/ \E o \in OrderIds : TTLExpire(o)
  \/ \E r \in Riders, o \in OrderIds : AcceptOrder(r, o)
  \/ \E r \in Riders : AssignRiderToOrder(r)
  \/ \E o \in OrderIds, s \in Statuses : UpdateOrderStatus(o, s)

SpecStore == Init /\ [][NextStore]_vars

\* Settlement and courier accept on the same orders, without crashes and
\* without the status update endpoint
NextRace ==
  \/ \E o \in OrderIds : CreateOrder(o)
  \/ Tick
  \/ \E o \in OrderIds : TTLExpire(o)
  \/ \E r \in Riders, o \in OrderIds : AcceptOrder(r, o)
  \/ \E r \in Riders : AssignRiderToOrder(r)
  \/ \E o \in OrderIds, isValid \in BOOLEAN : VerifyRazorpayPayment(o, isValid)
  \/ \E o \in OrderIds : BrokerReceive(o)
  \/ \E c \in Consumers, o \in OrderIds : SettleDeliver(c, o)
  \/ \E c \in Consumers : SettleUpdate(c)
  \/ \E c \in Consumers : SettleStorageUnavailable(c)
  \/ \E c \in Consumers : SettleTransition(c)
  \/ \E c \in Consumers : SettleNotify(c)
  \/ \E c \in Consumers : SettleAck(c)

SpecRace == Init /\ [][NextRace]_vars

\* Couriers that go on working after an accept was answered, over two orders
NextFleet ==
  \/ \E o \in FleetOrderIds : CreateOrder(o)
  \/ \E r \in Riders, o \in FleetOrderIds : AcceptOrder(r, o)
  \/ \E r \in Riders : AssignRiderToOrder(r)
  \/ \E r \in Riders : AcceptAnswered(r)
  \/ \E o \in FleetOrderIds, s \in Statuses : UpdateOrderStatus(o, s)

SpecFleet == Init /\ [][NextFleet]_vars

\* The rider service from the start of its process, with the publisher of
\* the order-ready queue
NextBoot ==
  \/ ConnectRabbitMQ
  \/ StartOrderReadyConsumer
  \/ AppListen
  \/ DbConnected
  \/ \E tag \in ReadyTags, o \in OrderIds, loc \in PickupLocs : PublishOrderReady(tag, o, loc)
  \/ BootConsume
  \/ BootFind
  \/ BootFindTimesOut
  \/ BootFindResolves
  \/ \E ok \in BOOLEAN : MatchNotify(ok)
  \/ MatchAck

SpecBoot == InitStartup /\ [][NextBoot]_vars

\* The payment service: its verify endpoints, Stripe's sessions, and the
\* broker that receives what they publish
NextPay ==
  \/ \E o \in OrderIds : CreateOrder(o)
  \/ \E sid \in SessionIds, o \in OrderIds : PayWithStripe(sid, o)
  \/ \E sid \in SessionIds : StripeSessionElsewhere(sid)
  \/ \E sid \in SessionIds : StripeCheckoutCompleted(sid)
  \/ \E sid \in SessionIds : VerifyStripe(sid)
  \/ \E body \in RazorpayBodies : VerifyRazorpayPaymentRequest(body)
  \/ \E o \in OrderIds : BrokerReceive(o)

SpecPay == Init /\ [][NextPay]_vars

\* The rider service's order-ready consumer with the publisher of its queue
NextMatch ==
  \/ \E c \in Couriers : ToggleRiderAvailablity(c)
  \/ \E tag \in ReadyTags, o \in OrderIds, loc \in PickupLocs : PublishOrderReady(tag, o, loc)
  \/ MatchConsume
  \/ MatchQueryThrows
  \/ \E ok \in BOOLEAN : MatchNotify(ok)
  \/ MatchNotifyHangs
  \/ MatchAck
  \/ MatchRestart

SpecMatch == InitMatch /\ [][NextMatch]_vars

\* The realtime service: socket connections and the internal emit endpoint
NextGateway ==
  \/ \E s \in Sockets, token \in Tokens : SocketConnect(s, token)
  \/ \E s \in Sockets : SocketDisconnect(s)
  \/ \E key \in Keys, event \in Events \cup {NoEvent}, room \in Rooms \cup {NoRoom} :
        InternalEmit(key, event, room)

SpecGateway == InitGateway /\ [][NextGateway]_vars

\* The realtime service with clients that send events of their own, under
\* requests to the internal endpoint that carry the key, an event and a room
NextClient ==
  \/ \E s \in Sockets, token \in Tokens : SocketConnect(s, token)
  \/ \E s \in Sockets : SocketDisconnect(s)
  \/ \E s \in Sockets, event \in ClientEvents, room \in Rooms : ClientEmit(s, event, room)
  \/ \E event \in Events, room \in Rooms : InternalEmit(secret, event, room)

SpecClient == Init /\ [][NextClient]_vars

\* the same with a consumer that keeps running: every step of the handler
\* that can be taken is taken; publishing, failures and restarts are not forced
SpecMatchLive ==
  /\ InitMatch
  /\ [][NextMatch]_vars
  /\ WF_vars(MatchConsume)
  /\ WF_vars(\E ok \in BOOLEAN : MatchNotify(ok))
  /\ WF_vars(MatchAck)

\* -------------------------------------------------------------------------
\* Payment settlement: C4, C5, C6
\* -------------------------------------------------------------------------

\* every published envelope of the order was delivered to the end: nothing
\* ready, nothing unacknowledged, nothing dead-lettered
Settled(o) ==
  /\ published[o] >= 1
  /\ stored[o] = published[o]
  /\ payQueue[o] = 0
  /\ \A c \in Consumers : settleMsg[c] # o
  /\ deadLetters[o] = 0

SettledOrder ==
  [ status |-> "paid", paymentStatus |-> "paid", expiresAt |-> NULL, riderId |-> NULL ]

\* crash-free runs of the payment pipeline end in SettledOrder
CrashFreeSettlement ==
  \A o \in DOMAIN orders : Settled(o) /\ crashes = 0 => orders[o] = SettledOrder

C6_ExpiryOnlyWhilePending ==
  \A o \in DOMAIN orders :
    orders[o].expiresAt # NULL => orders[o].paymentStatus = "pending"

\* C6 witness: an order that was pending with an expiry and is now paid
C6_Witness ==
  \E o \in DOMAIN orders :
    /\ orders[o].paymentStatus = "paid"
    /\ orders[o].expiresAt = NULL
    /\ \E c \in Consumers : settleMsg[c] = o /\ settlePc[c] = "updated"

\* -------------------------------------------------------------------------
\* Order state machine: C7, C8
\* -------------------------------------------------------------------------

\* C7: the status of a stored order changes only along a valid transition:
\* to the state that immediately follows the current one, or along a side
\* branch; any other request leaves the status unchanged.
C7_OnlyValidTransitions ==
  [][ \A o \in DOMAIN orders :
        o \in DOMAIN orders' /\ orders'[o].status # orders[o].status
          => ValidTransition(orders[o].status, orders'[o].status) ]_vars

\* C8: delivered, cancelled and expired are terminal: the status of a stored
\* order in one of them never changes again.
C8_TerminalStatesFinal ==
  [][ \A o \in DOMAIN orders :
        o \in DOMAIN orders' /\ orders[o].status \in Terminal
          => orders'[o].status = orders[o].status ]_vars

\* -------------------------------------------------------------------------
\* Courier matching: C9, C10
\* -------------------------------------------------------------------------

\* the couriers that are available, verified and within 500 m of the pickup
Eligible(docs, loc) ==
  { c \in DOMAIN docs :
      docs[c].isAvailble /\ docs[c].isVerified /\ Dist(docs[c].location, loc) <= 500 }

C10_EmptyNotAcked ==
  \A rec \in matchLog :
    rec.queried /\ rec.found = {} => ~rec.ack

\* C11: when the dispatch to the gateway failed for every candidate the
\* order-ready envelope is not acknowledged (it is nacked with requeue).
C11_TotalFailureNotAcked ==
  \A rec \in matchLog :
    rec.queried /\ rec.found # {} /\ rec.pushed = {} => ~rec.ack

\* C12: an envelope whose handler threw before acknowledging it is eventually
\* redelivered (or settled): it does not stay unacknowledged forever while
\* the consumer keeps running.
C12_UnackedRedelivered == (unacked # << >>) ~> (unacked = << >>)

\* -------------------------------------------------------------------------
\* Broker durability: C13
\* -------------------------------------------------------------------------

\* C13: an envelope whose publish has returned is never lost: it is on its
\* way to the broker or the broker has written it to the durable queue.
C13_PublishedNeverLost ==
  \A o \in OrderIds : published[o] = payWire[o] + stored[o]

\* -------------------------------------------------------------------------
\* Realtime gateway: C14 .. C20
\* -------------------------------------------------------------------------

\* the token passes the handshake: present, signature verified, user inside
Verified(token) == token.present /\ token.signed /\ token.user # NoUser

\* the rooms a socket is a member of
RoomsOf(s) == { r \in Rooms : s \in rooms[r] }

\* C14: every connection that is a member of a room passed token
\* verification; a handshake with no token, a token that fails verification
\* or a verified token without a user is answered Unauthorized and the
\* connection joins no room.
C14_RoomMembersVerified ==
  \A s \in Sockets :
    /\ RoomsOf(s) # {} => Verified(sockToken[s])
    /\ handshake[s] \in {"connected", "Unauthorized"} /\ ~Verified(sockToken[s])
         => handshake[s] = "Unauthorized" /\ RoomsOf(s) = {}

\* C14 witness: one handshake with a verified token that carries no user was
\* refused while another connection with a good token sits in its user room
C14_Witness ==
  \E s1, s2 \in Sockets :
    /\ handshake[s1] = "Unauthorized"
    /\ sockToken[s1].present /\ sockToken[s1].signed /\ sockToken[s1].user = NoUser
    /\ handshake[s2] = "connected"
    /\ s2 \in rooms[UserRoom(sockUser[s2]._id)]

\* C15: a connected socket carries the identity of its verified token, is a
\* member of user:<id> of that identity, and is a member of restaurant:<id>
\* exactly when the identity has that restaurant affiliation.
C15_RoomsOfIdentity ==
  \A s \in Sockets :
    handshake[s] = "connected" =>
      /\ sockUser[s] = sockToken[s].user
      /\ UserRoom(sockUser[s]._id) \in RoomsOf(s)
      /\ \A r \in RestaurantIds :
           RestaurantRoom(r) \in RoomsOf(s) <=> sockUser[s].restaurantId = r

\* C15 witness: a connected restaurant owner in the restaurant room next to a
\* connected user with no affiliation who is in no restaurant room
C15_Witness ==
  \E s1, s2 \in Sockets :
    /\ handshake[s1] = "connected" /\ handshake[s2] = "connected"
    /\ sockUser[s1].restaurantId \in RestaurantIds
    /\ RestaurantRoom(sockUser[s1].restaurantId) \in RoomsOf(s1)
    /\ sockUser[s2].restaurantId = NoRestaurant
    /\ RoomsOf(s2) = { UserRoom(sockUser[s2]._id) }

\* C16: every member of every room is a currently open connection.
C16_MembersAreOpen ==
  \A r \in Rooms : \A s \in rooms[r] : handshake[s] = "connected"

\* C16 witness: a connection that was in rooms has disconnected while
\* another one is still enrolled
C16_Witness ==
  \E s1, s2 \in Sockets :
    /\ handshake[s1] = "disconnected"
    /\ handshake[s2] = "connected"
    /\ RoomsOf(s2) # {}

\* C17: an accepted emit to a room adds the message to the inbox of every
\* connection enrolled in the room at that moment and to no other inbox.
C17_DeliveredToRoomOnly ==
  [][ lastEmit' # lastEmit /\ lastEmit'.status = 200
        => \A s \in Sockets :
             /\ lastEmit'.n \notin inbox[s]
             /\ inbox'[s] = IF s \in rooms[lastEmit'.room]
                            THEN inbox[s] \cup { lastEmit'.n } ELSE inbox[s] ]_vars

\* C17 witness: the latest message reached a member of its room and did not
\* reach a connection that was open at the time but outside the room
C17_Witness ==
  /\ lastEmit.status = 200
  /\ \E s1, s2 \in Sockets :
       /\ handshake[s1] = "connected" /\ handshake[s2] = "connected"
       /\ lastEmit.n \in inbox[s1]
       /\ s1 \in rooms[lastEmit.room]
       /\ sockSince[s2] < lastEmit.n
       /\ s2 \notin rooms[lastEmit.room]
       /\ lastEmit.n \notin inbox[s2]

\* C18: an emit with the right key, an event and a room that has no enrolled
\* connection is answered 200, reaches no inbox and changes no membership.
C18_EmptyRoomNoOp ==
  [][ ( /\ lastEmit' # lastEmit
        /\ lastEmit'.key = secret
        /\ lastEmit'.event # NoEvent
        /\ lastEmit'.room # NoRoom
        /\ rooms[lastEmit'.room] = {} )
      => ( /\ lastEmit'.status = 200
           /\ inbox' = inbox
           /\ rooms' = rooms ) ]_vars

\* C18 witness: the latest emit was answered 200 for a room that was empty
\* (nobody has disconnected, nobody is in it) while a connection opened
\* before it sits in another room and received nothing
C18_Witness ==
  /\ lastEmit.status = 200
  /\ rooms[lastEmit.room] = {}
  /\ \A s \in Sockets : handshake[s] # "disconnected" /\ lastEmit.n \notin inbox[s]
  /\ \E s \in Sockets :
       handshake[s] = "connected" /\ sockSince[s] < lastEmit.n /\ RoomsOf(s) # {}

\* C19: a connection never holds a message that was emitted before it was
\* opened.
C19_NoReplay ==
  \A s \in Sockets : \A m \in inbox[s] : m > sockSince[s]

\* C19 witness: the latest message went to a user's room, then that user
\* connected: the connection is in the room and its inbox is empty
C19_Witness ==
  \E s \in Sockets :
    /\ handshake[s] = "connected"
    /\ lastEmit.status = 200
    /\ lastEmit.room = UserRoom(sockUser[s]._id)
    /\ sockSince[s] = lastEmit.n
    /\ sockSince[s] >= 1
    /\ inbox[s] = {}

\* C20: a request to the internal emit endpoint whose x-internal-key header
\* is absent or differs from the configured secret is answered 403, whatever
\* the secret is (an unset one included).
C20_BadKeyForbidden ==
  lastEmit.status # 0 /\ (lastEmit.key = Undefined \/ lastEmit.key # secret)
    => lastEmit.status = 403

\* C21: a request to the internal emit endpoint with the right key and a
\* missing event or a missing room is answered 400 and emits nothing.
C21_MissingFieldRejected ==
  [][ ( /\ lastEmit' # lastEmit
        /\ lastEmit'.key = secret
        /\ (lastEmit'.event = NoEvent \/ lastEmit'.room = NoRoom) )
      => ( /\ lastEmit'.status = 400
           /\ emitCount' = emitCount
           /\ inbox' = inbox ) ]_vars

\* C21 witness: the latest request had the right key, an event and no room,
\* and was answered 400 while a connection sits in a room with an empty inbox
C21_Witness ==
  /\ lastEmit.status = 400
  /\ lastEmit.key = secret
  /\ lastEmit.event # NoEvent
  /\ lastEmit.room = NoRoom
  /\ \E s \in Sockets : handshake[s] = "connected" /\ RoomsOf(s) # {} /\ inbox[s] = {}

\* C22: a request with the right key, an event and a room is answered with
\* status 200 and the body { success: true }.
C22_SuccessBody ==
  lastEmit.key = secret /\ lastEmit.event # NoEvent /\ lastEmit.room # NoRoom
    /\ lastEmit.status # 0
    => lastEmit.status = 200 /\ lastEmit.body = [ success |-> TRUE ]

\* -------------------------------------------------------------------------
\* Settlement failure handling: C23
\* -------------------------------------------------------------------------

\* the handler of instance c ends at the conditional update without a crash
EndsAtUpdate(c) ==
  /\ settlePc[c] = "received"
  /\ settlePc'[c] = "idle"
  /\ crashes' = crashes

C24_ExpiryOnlyPendingPassed ==
  [][ \A o \in OrderIds :
        /\ o \in DOMAIN orders /\ o \notin DOMAIN orders'
             => /\ orders[o].paymentStatus = "pending"
                /\ orders[o].expiresAt # NULL
                /\ orders[o].expiresAt < now
        /\ o \in created /\ o \notin DOMAIN orders
             => o \notin DOMAIN orders' ]_vars

\* C24 witness: a settlement consumer holds the PAYMENT_SUCCESS envelope of an
\* order that the TTL monitor has removed in the meantime
C24_Witness ==
  \E c \in Consumers, o \in OrderIds :
    /\ settleMsg[c] = o
    /\ settlePc[c] = "received"
    /\ o \in created
    /\ o \notin DOMAIN orders

\* -------------------------------------------------------------------------
\* Observable order state: C25
\* -------------------------------------------------------------------------

\* C25: an order with paymentStatus paid has status paid or a later state
\* (or cancelled), and an order whose status is paid or a later lifecycle
\* state has paymentStatus paid.
C25_PaymentMatchesStatus ==
  \A o \in DOMAIN orders :
    /\ orders[o].paymentStatus = "paid"
         => Pos(orders[o].status) >= Pos("paid") \/ orders[o].status = "cancelled"
    /\ Pos(orders[o].status) >= Pos("paid")
         => orders[o].paymentStatus = "paid"

\* -------------------------------------------------------------------------
\* Courier matching under duplicate delivery: C26
\* -------------------------------------------------------------------------

\* C26: a courier gets order:available for an order at most once, however
\* often the order's envelope is delivered.
C26_NoDuplicateOffer ==
  [][ \A c \in Couriers :
        c \in pushed' /\ c \notin pushed
          => << c, matchMsg.orderId >> \notin offered ]_vars

\* -------------------------------------------------------------------------
\* Courier matching against a silent gateway: C27
\* -------------------------------------------------------------------------

\* C27: a handler that waits for the gateway's answer to a push stops
\* waiting after a bounded time and finishes the envelope.
C27_PushWaitBounded == (matchPc = "awaiting") ~> (matchPc = "idle")

\* -------------------------------------------------------------------------
\* Envelope tags: C28
\* -------------------------------------------------------------------------

\* C28: an envelope tagged ORDER_READY_FOR_PICKUP is not skipped: the
\* handler runs the courier query for it.
C28_PickupTagHandled ==
  \A rec \in matchLog :
    rec.msg.type = "ORDER_READY_FOR_PICKUP" => rec.queried

\* -------------------------------------------------------------------------
\* Envelope shape: C29
\* -------------------------------------------------------------------------

\* C29: an envelope placed on the payment queue carries the three fields
\* type, data and timestamp.
C29_EnvelopeFields ==
  lastSent # NoEnvelope => DOMAIN lastSent = {"type", "data", "timestamp"}

\* -------------------------------------------------------------------------
\* Settlement against courier accept: C30
\* -------------------------------------------------------------------------

\* the final documents of the two serial orders of a settlement and an
\* accept by courier r on an order as it was placed
SerialOutcomes(r) ==
  { AssignUpdate(TransitionPaid(MarkPaid(NewOrder(0))), r),
    TransitionPaid(MarkPaid(AssignUpdate(NewOrder(0), r))) }

\* C30: once an order's settlement has been handled to the end and a courier
\* accept on it has succeeded, in whatever interleaving, the stored order is
\* the final document of a serial order of the two: paid, expiresAt cleared,
\* and the winning courier assigned.
C30_SerialOutcome ==
  \A o \in DOMAIN orders :
    Settled(o) /\ Winners(o) # {}
      => \E r \in Winners(o) : orders[o] \in SerialOutcomes(r)

\* C30 witness: an accept for an order is in flight while a settlement
\* consumer is between its conditional update and its transition on the
\* same order
C30_Witness ==
  \E r \in Riders, c \in Consumers, o \in DOMAIN orders :
    /\ acceptPc[r] = "calling" /\ acceptReq[r] = o
    /\ settlePc[c] = "updated" /\ settleMsg[c] = o
    /\ orders[o].paymentStatus = "paid"
    /\ orders[o].riderId = NULL

\* -------------------------------------------------------------------------
\* Accept and the order's state: C31
\* -------------------------------------------------------------------------

\* C31: an accept that assigns a courier (the answer is success and the
\* order's status becomes rider_assigned) only does so on an order whose
\* status was ready_for_pickup; on an order in any other state with riderId
\* null the accept assigns nobody.
C31_AssignedOnlyFromReady ==
  [][ \A r \in Riders :
        ( /\ acceptPc[r] = "calling"
          /\ acceptPc'[r] = "accepted" )
        => ( /\ acceptReq[r] \in DOMAIN orders
             /\ orders[acceptReq[r]].status = "ready_for_pickup" ) ]_vars

\* -------------------------------------------------------------------------
\* Courier matching, failures inside the fan-out: C32
\* -------------------------------------------------------------------------

SignatureMatches(req) ==
  req.razorpay_signature =
    << "hmac-sha256", RazorpayKeySecret, << req.razorpay_order_id, "|", req.razorpay_payment_id >> >>

\* C34: a Razorpay verify request whose signature does not match is answered
\* 400 and writes nothing to the payment queue; every PAYMENT_SUCCESS
\* envelope with provider razorpay is published by a request whose signature
\* matches, for the orderId of that request.
C34_PublishOnlyOnValidSignature ==
  [][ /\ ( /\ payRes' # payRes
           /\ payRes'.provider = "razorpay"
           /\ ~SignatureMatches(payRes'.req) )
         => ( /\ payRes'.status = 400
              /\ published' = published
              /\ payWire' = payWire
              /\ lastSent' = lastSent )
      /\ ( /\ published' # published
           /\ lastSent'.data.provider = "razorpay" )
         => ( /\ payRes'.provider = "razorpay"
              /\ SignatureMatches(payRes'.req)
              /\ payRes'.status = 200
              /\ lastSent'.data.orderId = payRes'.req.orderId ) ]_vars

\* C34 witness: the latest verify request carried a signature Razorpay made
\* for another razorpay order id; it was answered 400 and no envelope has
\* been published for its order
C34_Witness ==
  /\ payRes.provider = "razorpay"
  /\ payRes.status = 400
  /\ payRes.req.razorpay_order_id = "ro1"
  /\ payRes.req.razorpay_signature =
       << "hmac-sha256", RazorpayKeySecret, << "ro2", "|", payRes.req.razorpay_payment_id >> >>
  /\ published[payRes.req.orderId] = 0
  /\ payRes.req.orderId \in DOMAIN orders

\* C35: a PAYMENT_SUCCESS envelope is published through the Stripe verify
\* operation only for a checkout session that Stripe reports as paid: a
\* session that exists and has not been paid publishes nothing.
C35_PublishedOnlyWhenPaid ==
  [][ \A o \in OrderIds :
        ( /\ published'[o] > published[o]
          /\ payRes'.provider = "stripe" )
        => ( /\ sessions[payRes'.req.sessionId].orderId = o
             /\ sessions[payRes'.req.sessionId].payment_status = "paid" ) ]_vars

\* -------------------------------------------------------------------------
\* Realtime gateway, room membership under client events: C36
\* -------------------------------------------------------------------------

\* the rooms derived from the identity of a verified token
OwnRooms(token) ==
  IF Verified(token)
  THEN { UserRoom(token.user._id), RestaurantRoom(token.user.restaurantId) }
  ELSE {}

ActiveOrders(r) ==
  { o \in DOMAIN orders :
      orders[o].riderId = r /\ orders[o].status \notin {"delivered", "cancelled"} }

\* C37: no courier is assigned to two undelivered orders at the same time.
C37_OneActiveOrderPerCourier ==
  \A r \in Riders : Cardinality(ActiveOrders(r)) <= 1

\* -------------------------------------------------------------------------
\* Settlement, order of update and notification: C38
\* -------------------------------------------------------------------------

C39_QueryAfterConnect == findAt \in {"not called", "connected"}

====
